---- MODULE Spec2Model ----
(***************************************************************************)
(* The type checker of miniml (src/src/typecheck.rs) as a state machine.   *)
(*                                                                         *)
(* The checker is a recursion over the expression tree; here the recursion *)
(* is unfolded into an explicit call stack `kont`, one frame per pending   *)
(* call of the source, so that the order of the sub-checks, the scope      *)
(* stack at every point and the propagation of an error by try! are        *)
(* visible in the states.                                                  *)
(***************************************************************************)
EXTENDS Naturals, Sequences, FiniteSets, TLC

VARIABLES expr,      \* the tree handed to typecheck
          pc,        \* "call_check" | "ret_check" | "ret_expect" | "ret_with_bindings" | "done"
          control,   \* the node whose check is being called / has returned
          ctx,       \* the TypeContext: a stack of scopes
          kont,      \* the pending calls, innermost first
          result,    \* the Result being returned
          ty,        \* the type handed to the formatter
          text       \* what the formatter has written for ty

input == <<expr, ty, text>>
checker == <<expr, pc, control, ctx, kont, result>>
vars == <<expr, pc, control, ctx, kont, result, ty, text>>

(***************************************************************************)
(* Bounds of the model.                                                    *)
(***************************************************************************)
MaxFuns == 2      \* longest group of a LetRec
MaxArrows == 3    \* most Arrow constructors in a rendered type

(***************************************************************************)
(* ast::Type and its rendering (src/ast/src/types.rs).                     *)
(***************************************************************************)
AstInt == [ast |-> "Int"]
AstBool == [ast |-> "Bool"]
AstArrow(l, r) == [ast |-> "Arrow", l |-> l, r |-> r]

RECURSIVE AstTypesUpTo(_)
AstTypesUpTo(n) ==
    IF n = 0 THEN {AstInt, AstBool}
    ELSE LET smaller == AstTypesUpTo(n - 1)
         IN  smaller \cup
             UNION {{AstArrow(l, r) : l \in AstTypesUpTo(i), r \in AstTypesUpTo(n - 1 - i)} :
                    i \in 0..(n - 1)}

\* an Arrow on the left written without parentheses
RECURSIVE AstRenderFlat(_)
AstRenderFlat(t) ==
    IF t.ast = "Int" THEN "int"
    ELSE IF t.ast = "Bool" THEN "bool"
    ELSE AstRenderFlat(t.l) \o " -> " \o AstRenderFlat(t.r)

RECURSIVE AstRender(_)
AstRender(t) ==
    IF t.ast = "Int" THEN "int"
    ELSE IF t.ast = "Bool" THEN "bool"
    ELSE IF t.l.ast = "Arrow"
         THEN "(" \o AstRender(t.l) \o ") -> " \o AstRender(t.r)
         ELSE AstRender(t.l) \o " -> " \o AstRender(t.r)

(***************************************************************************)
(* typecheck::Type (src/src/typecheck.rs).                                 *)
(***************************************************************************)
Int == [tag |-> "Int"]
Bool == [tag |-> "Bool"]
Arrow(arg, ret) == [tag |-> "Arrow", arg |-> arg, ret |-> ret]

maps_to(self, other) == Arrow(self, other)

RECURSIVE as_type(_)
as_type(t) ==
    IF t.ast = "Int" THEN Int
    ELSE IF t.ast = "Bool" THEN Bool
    ELSE Arrow(as_type(t.l), as_type(t.r))

RECURSIVE Render(_)
Render(t) ==
    IF t.tag = "Int" THEN "int"
    ELSE IF t.tag = "Bool" THEN "bool"
    ELSE IF t.arg.tag = "Arrow"
         THEN "(" \o Render(t.arg) \o ") -> " \o Render(t.ret)
         ELSE Render(t.arg) \o " -> " \o Render(t.ret)

(***************************************************************************)
(* ast::Expr, as typecheck.rs reads it.                                    *)
(***************************************************************************)
Var(ident) == [tag |-> "Var", ident |-> ident]
Number(n) == [tag |-> "Literal", lit |-> "Number", value |-> n]
BoolLit(b) == [tag |-> "Literal", lit |-> "Bool", value |-> b]
ArithBinOp(kind, lhs, rhs) == [tag |-> "ArithBinOp", kind |-> kind, lhs |-> lhs, rhs |-> rhs]
CmpBinOp(kind, lhs, rhs) == [tag |-> "CmpBinOp", kind |-> kind, lhs |-> lhs, rhs |-> rhs]
If(cond, tru, fls) == [tag |-> "If", cond |-> cond, tru |-> tru, fls |-> fls]
Fun(fun_name, arg_name, arg_type, ret_type, body) ==
    [tag |-> "Fun", fun_name |-> fun_name, arg_name |-> arg_name,
     arg_type |-> arg_type, fun_type |-> ret_type, body |-> body]
LetFun(fun, body) == [tag |-> "LetFun", fun |-> fun, body |-> body]
LetRec(funs, body) == [tag |-> "LetRec", funs |-> funs, body |-> body]
Apply(fun, arg) == [tag |-> "Apply", fun |-> fun, arg |-> arg]

ArithOp == {"Mul", "Div", "Add", "Sub"}
CmpOp == {"Eq", "Lt", "Gt"}

(***************************************************************************)
(* Result: Ok(Type) or Err(TypeError).  The message of a TypeError is kept *)
(* as its format (kind) and its arguments; types appear in it rendered.    *)
(***************************************************************************)
Ok(t) == [ok |-> TRUE, type |-> t]
Unbound(ident) == [ok |-> FALSE, kind |-> "UnboundVariable", ident |-> ident]
Mismatch(type_, t, e) ==
    [ok |-> FALSE, kind |-> "TypeMismatch", expected |-> Render(type_), got |-> Render(t), in |-> e]
ArmMismatch(t1, t2) ==
    [ok |-> FALSE, kind |-> "ArmMismatch", tru |-> Render(t1), fls |-> Render(t2)]
Duplicate(funs) == [ok |-> FALSE, kind |-> "DuplicateDefinition", funs |-> funs]
NotAFunction(e) == [ok |-> FALSE, kind |-> "NotAFunction", in |-> e]
NoResult == [ok |-> FALSE, kind |-> "NoResult"]

(***************************************************************************)
(* context::TypeContext: a stack of scopes, the innermost last; a scope is *)
(* a sequence of <<identifier, Type>> pairs.                               *)
(***************************************************************************)
empty == <<>>

RECURSIVE Flatten(_)
Flatten(scopes) ==
    IF scopes = <<>> THEN <<>> ELSE Head(scopes) \o Flatten(Tail(scopes))

None == [some |-> FALSE]
Some(t) == [some |-> TRUE, type |-> t]

lookup(c, ident) ==
    LET flat == Flatten(c)
        hits == {i \in 1..Len(flat) : flat[i][1] = ident}
    IN  IF hits = {} THEN None
        ELSE Some(flat[CHOOSE i \in hits : \A j \in hits : j <= i][2])

PushScope(c, bindings) == Append(c, bindings)
PopScope(c) == SubSeq(c, 1, Len(c) - 1)

(***************************************************************************)
(* fun_type and collect_bindings.                                          *)
(***************************************************************************)
fun_type(f) == maps_to(as_type(f.arg_type), as_type(f.fun_type))

Names(funs) == {funs[i].fun_name : i \in 1..Len(funs)}

\* no test for a repeated name
collect_bindings_unchecked(funs) ==
    [ok |-> TRUE, bindings |-> [i \in 1..Len(funs) |-> <<funs[i].fun_name, fun_type(funs[i])>>]]

\* each name bound to the return type of its function
collect_bindings_returns(funs) ==
    IF Cardinality(Names(funs)) # Len(funs)
    THEN Duplicate(funs)
    ELSE [ok |-> TRUE, bindings |-> [i \in 1..Len(funs) |-> <<funs[i].fun_name, as_type(funs[i].fun_type)>>]]

collect_bindings(funs) ==
    IF Cardinality(Names(funs)) # Len(funs)
    THEN Duplicate(funs)
    ELSE [ok |-> TRUE, bindings |-> [i \in 1..Len(funs) |-> <<funs[i].fun_name, fun_type(funs[i])>>]]

(***************************************************************************)
(* The call stack.  A frame is the point of the source a pending call      *)
(* returns to; `self` is the node whose check owns the frame.              *)
(***************************************************************************)
Frame(k, self) == [k |-> k, self |-> self]
ExpectFrame(e, type_) == [k |-> "expect", expr |-> e, type_ |-> type_]

Top == Head(kont)
Returning(from, k) == pc = from /\ kont # <<>> /\ Top.k = k

\* call e.check(ctx) with the frames `frames` pushed
Call(e, frames) ==
    /\ pc' = "call_check"
    /\ control' = e
    /\ kont' = frames \o kont
    /\ UNCHANGED result

\* call expect(e, type_, ctx): line 75 calls e.check(ctx)
CallExpect(e, type_, frames) == Call(e, <<ExpectFrame(e, type_)>> \o frames)

\* self.check(ctx) returns r to its caller
Return(self, r) ==
    /\ pc' = "ret_check"
    /\ control' = self
    /\ kont' = Tail(kont)
    /\ result' = r

\* lines 76-79 of expect, once expr.check has returned Ok(t)
expect(e, type_, t) ==
    IF t # type_ THEN Mismatch(type_, t, e) ELSE Ok(type_)

(***************************************************************************)
(* typecheck (lines 59-62) and impl Typecheck for Expr (lines 86-105).     *)
(***************************************************************************)
CheckVar ==
    /\ pc = "call_check" /\ control.tag = "Var"
    /\ LET found == lookup(ctx, control.ident)
       IN  result' = IF found.some THEN Ok(found.type) ELSE Unbound(control.ident)
    /\ pc' = "ret_check"
    /\ UNCHANGED <<input, control, ctx, kont>>

CheckLiteral ==
    /\ pc = "call_check" /\ control.tag = "Literal"
    /\ result' = IF control.lit = "Number" THEN Ok(Int) ELSE Ok(Bool)
    /\ pc' = "ret_check"
    /\ UNCHANGED <<input, control, ctx, kont>>

ExpectReturn ==
    /\ Returning("ret_check", "expect")
    /\ result' = IF result.ok THEN expect(Top.expr, Top.type_, result.type) ELSE result
    /\ pc' = "ret_expect"
    /\ kont' = Tail(kont)
    /\ UNCHANGED <<input, control, ctx>>

(***************************************************************************)
(* ArithBinOp (lines 117-123) and CmpBinOp (lines 125-131).                *)
(***************************************************************************)
CheckArithBinOp ==
    /\ pc = "call_check" /\ control.tag = "ArithBinOp"
    /\ CallExpect(control.lhs, Int, <<Frame("ArithLhs", control)>>)
    /\ UNCHANGED <<input, ctx>>

ArithLhsReturn ==
    /\ Returning("ret_expect", "ArithLhs")
    /\ IF result.ok
       THEN /\ pc' = "call_check"
            /\ control' = Top.self.rhs
            /\ kont' = <<ExpectFrame(Top.self.rhs, Int), Frame("ArithRhs", Top.self)>> \o Tail(kont)
            /\ UNCHANGED result
       ELSE Return(Top.self, result)
    /\ UNCHANGED <<input, ctx>>

\* the Result of the second expect dropped instead of passed to try!
ArithRhsReturnIgnoresRhs ==
    /\ Returning("ret_expect", "ArithRhs")
    /\ Return(Top.self, Ok(Int))
    /\ UNCHANGED <<input, ctx>>

ArithRhsReturn ==
    /\ Returning("ret_expect", "ArithRhs")
    /\ Return(Top.self, IF result.ok THEN Ok(Int) ELSE result)
    /\ UNCHANGED <<input, ctx>>

CheckCmpBinOp ==
    /\ pc = "call_check" /\ control.tag = "CmpBinOp"
    /\ CallExpect(control.lhs, Int, <<Frame("CmpLhs", control)>>)
    /\ UNCHANGED <<input, ctx>>

CmpLhsReturn ==
    /\ Returning("ret_expect", "CmpLhs")
    /\ IF result.ok
       THEN /\ pc' = "call_check"
            /\ control' = Top.self.rhs
            /\ kont' = <<ExpectFrame(Top.self.rhs, Int), Frame("CmpRhs", Top.self)>> \o Tail(kont)
            /\ UNCHANGED result
       ELSE Return(Top.self, result)
    /\ UNCHANGED <<input, ctx>>

CmpRhsReturn ==
    /\ Returning("ret_expect", "CmpRhs")
    /\ Return(Top.self, IF result.ok THEN Ok(Bool) ELSE result)
    /\ UNCHANGED <<input, ctx>>

(***************************************************************************)
(* If (lines 133-143).                                                     *)
(***************************************************************************)
CheckIf ==
    /\ pc = "call_check" /\ control.tag = "If"
    /\ CallExpect(control.cond, Bool, <<Frame("IfCond", control)>>)
    /\ UNCHANGED <<input, ctx>>

\* the arms checked even when the condition has failed
IfCondReturnGoesOn ==
    /\ Returning("ret_expect", "IfCond")
    /\ pc' = "call_check"
    /\ control' = Top.self.tru
    /\ kont' = <<Frame("IfTru", Top.self)>> \o Tail(kont)
    /\ UNCHANGED result
    /\ UNCHANGED <<input, ctx>>

IfCondReturn ==
    /\ Returning("ret_expect", "IfCond")
    /\ IF result.ok
       THEN /\ pc' = "call_check"
            /\ control' = Top.self.tru
            /\ kont' = <<Frame("IfTru", Top.self)>> \o Tail(kont)
            /\ UNCHANGED result
       ELSE Return(Top.self, result)
    /\ UNCHANGED <<input, ctx>>

IfTruReturn ==
    /\ Returning("ret_check", "IfTru")
    /\ IF result.ok
       THEN /\ pc' = "call_check"
            /\ control' = Top.self.fls
            /\ kont' = <<[k |-> "IfFls", self |-> Top.self, t1 |-> result.type]>> \o Tail(kont)
            /\ UNCHANGED result
       ELSE Return(Top.self, result)
    /\ UNCHANGED <<input, ctx>>

\* the arms not compared
IfFlsReturnUncompared ==
    /\ Returning("ret_check", "IfFls")
    /\ Return(Top.self, IF ~result.ok THEN result ELSE Ok(Top.t1))
    /\ UNCHANGED <<input, ctx>>

IfFlsReturn ==
    /\ Returning("ret_check", "IfFls")
    /\ Return(Top.self,
              IF ~result.ok THEN result
              ELSE IF Top.t1 # result.type THEN ArmMismatch(Top.t1, result.type)
              ELSE Ok(Top.t1))
    /\ UNCHANGED <<input, ctx>>

(***************************************************************************)
(* TypeContext::with_bindings: the scope is pushed by the caller's action  *)
(* (the call), and popped when the closure returns, whatever it returns.   *)
(***************************************************************************)
WithBindingsReturn ==
    /\ pc \in {"ret_check", "ret_expect"} /\ kont # <<>> /\ Top.k = "with_bindings"
    /\ ctx' = PopScope(ctx)
    /\ pc' = "ret_with_bindings"
    /\ kont' = Tail(kont)
    /\ UNCHANGED <<input, control, result>>

(***************************************************************************)
(* Fun (lines 145-153).                                                    *)
(***************************************************************************)
FunBindings(fun) ==
    <<<<fun.arg_name, as_type(fun.arg_type)>>, <<fun.fun_name, fun_type(fun)>>>>

\* the body checked against the argument type instead of the return type
CheckFunAgainstArgType ==
    /\ pc = "call_check" /\ control.tag = "Fun"
    /\ ctx' = PushScope(ctx, FunBindings(control))
    /\ CallExpect(control.body, as_type(control.arg_type),
                  <<Frame("with_bindings", control),
                    [k |-> "Fun", self |-> control, result |-> fun_type(control)]>>)
    /\ UNCHANGED input

CheckFun ==
    /\ pc = "call_check" /\ control.tag = "Fun"
    /\ ctx' = PushScope(ctx, FunBindings(control))
    /\ CallExpect(control.body, as_type(control.fun_type),
                  <<Frame("with_bindings", control),
                    [k |-> "Fun", self |-> control, result |-> fun_type(control)]>>)
    /\ UNCHANGED input

FunReturn ==
    /\ Returning("ret_with_bindings", "Fun")
    /\ Return(Top.self, IF result.ok THEN Ok(Top.result) ELSE result)
    /\ UNCHANGED <<input, ctx>>

(***************************************************************************)
(* LetFun (lines 161-167).                                                 *)
(***************************************************************************)
CheckLetFun ==
    /\ pc = "call_check" /\ control.tag = "LetFun"
    /\ Call(control.fun, <<Frame("LetFunFun", control)>>)
    /\ UNCHANGED <<input, ctx>>

\* the name bound to the return type of the function
LetFunFunReturnBindsRet ==
    /\ Returning("ret_check", "LetFunFun")
    /\ IF result.ok
       THEN /\ ctx' = PushScope(ctx, <<<<Top.self.fun.fun_name, result.type.ret>>>>)
            /\ pc' = "call_check"
            /\ control' = Top.self.body
            /\ kont' = <<Frame("with_bindings", Top.self), Frame("LetFun", Top.self)>> \o Tail(kont)
            /\ UNCHANGED result
       ELSE Return(Top.self, result) /\ UNCHANGED ctx
    /\ UNCHANGED input

LetFunFunReturn ==
    /\ Returning("ret_check", "LetFunFun")
    /\ IF result.ok
       THEN /\ ctx' = PushScope(ctx, <<<<Top.self.fun.fun_name, result.type>>>>)
            /\ pc' = "call_check"
            /\ control' = Top.self.body
            /\ kont' = <<Frame("with_bindings", Top.self), Frame("LetFun", Top.self)>> \o Tail(kont)
            /\ UNCHANGED result
       ELSE Return(Top.self, result) /\ UNCHANGED ctx
    /\ UNCHANGED input

LetFunReturn ==
    /\ Returning("ret_with_bindings", "LetFun")
    /\ Return(Top.self, result)
    /\ UNCHANGED <<input, ctx>>

(***************************************************************************)
(* LetRec (lines 169-179).                                                 *)
(***************************************************************************)
CheckLetRec ==
    /\ pc = "call_check" /\ control.tag = "LetRec"
    /\ LET bindings == collect_bindings(control.funs)
       IN  IF ~bindings.ok
           THEN /\ result' = bindings
                /\ pc' = "ret_check"
                /\ UNCHANGED <<control, ctx, kont>>
           ELSE /\ ctx' = PushScope(ctx, bindings.bindings)
                /\ IF control.funs = <<>>
                   THEN Call(control.body,
                             <<Frame("with_bindings", control), Frame("LetRec", control)>>)
                   ELSE Call(control.funs[1],
                             <<[k |-> "LetRecFuns", self |-> control, i |-> 1],
                               Frame("with_bindings", control), Frame("LetRec", control)>>)
    /\ UNCHANGED input

\* try! leaving the whole check instead of the closure: the scope stays
LetRecFunsReturnLeaks ==
    /\ Returning("ret_check", "LetRecFuns")
    /\ IF ~result.ok
       THEN /\ kont' = Tail(Tail(kont))
            /\ pc' = "ret_with_bindings"
            /\ UNCHANGED <<control, result>>
       ELSE /\ pc' = "call_check"
            /\ UNCHANGED result
            /\ IF Top.i < Len(Top.self.funs)
               THEN /\ control' = Top.self.funs[Top.i + 1]
                    /\ kont' = <<[Top EXCEPT !.i = @ + 1]>> \o Tail(kont)
               ELSE /\ control' = Top.self.body
                    /\ kont' = Tail(kont)
    /\ UNCHANGED <<input, ctx>>

LetRecFunsReturn ==
    /\ Returning("ret_check", "LetRecFuns")
    /\ IF ~result.ok
       THEN /\ kont' = Tail(kont)
            /\ UNCHANGED <<pc, control, result>>
       ELSE /\ pc' = "call_check"
            /\ UNCHANGED result
            /\ IF Top.i < Len(Top.self.funs)
               THEN /\ control' = Top.self.funs[Top.i + 1]
                    /\ kont' = <<[Top EXCEPT !.i = @ + 1]>> \o Tail(kont)
               ELSE /\ control' = Top.self.body
                    /\ kont' = Tail(kont)
    /\ UNCHANGED <<input, ctx>>

LetRecReturn ==
    /\ Returning("ret_with_bindings", "LetRec")
    /\ Return(Top.self, result)
    /\ UNCHANGED <<input, ctx>>

(***************************************************************************)
(* Apply (lines 189-199).                                                  *)
(***************************************************************************)
CheckApply ==
    /\ pc = "call_check" /\ control.tag = "Apply"
    /\ Call(control.fun, <<Frame("ApplyFun", control)>>)
    /\ UNCHANGED <<input, ctx>>

\* the argument expected to have the return type of the function
ApplyFunReturnExpectsRet ==
    /\ Returning("ret_check", "ApplyFun")
    /\ IF ~result.ok
       THEN Return(Top.self, result)
       ELSE IF result.type.tag = "Arrow"
       THEN /\ pc' = "call_check"
            /\ control' = Top.self.arg
            /\ kont' = <<ExpectFrame(Top.self.arg, result.type.ret),
                         [k |-> "ApplyArg", self |-> Top.self, ret |-> result.type.ret]>>
                       \o Tail(kont)
            /\ UNCHANGED result
       ELSE Return(Top.self, NotAFunction(Top.self.fun))
    /\ UNCHANGED <<input, ctx>>

ApplyFunReturn ==
    /\ Returning("ret_check", "ApplyFun")
    /\ IF ~result.ok
       THEN Return(Top.self, result)
       ELSE IF result.type.tag = "Arrow"
       THEN /\ pc' = "call_check"
            /\ control' = Top.self.arg
            /\ kont' = <<ExpectFrame(Top.self.arg, result.type.arg),
                         [k |-> "ApplyArg", self |-> Top.self, ret |-> result.type.ret]>>
                       \o Tail(kont)
            /\ UNCHANGED result
       ELSE Return(Top.self, NotAFunction(Top.self.fun))
    /\ UNCHANGED <<input, ctx>>

ApplyArgReturn ==
    /\ Returning("ret_expect", "ApplyArg")
    /\ Return(Top.self, IF result.ok THEN Ok(Top.ret) ELSE result)
    /\ UNCHANGED <<input, ctx>>

TypecheckReturn ==
    /\ pc = "ret_check" /\ kont = <<>>
    /\ pc' = "done"
    /\ UNCHANGED <<input, control, ctx, kont, result>>

(***************************************************************************)
(* The value of e.check(c), by recursion on e as the source computes it:   *)
(* what a sub-expression "checks to" in a given context.                   *)
(***************************************************************************)
RECURSIVE Checks(_, _)
RECURSIVE ChecksFuns(_, _, _)

Expects(e, type_, c) ==
    LET t == Checks(e, c)
    IN  IF t.ok THEN expect(e, type_, t.type) ELSE t

ChecksFun(fun, c) ==
    LET r == Expects(fun.body, as_type(fun.fun_type), PushScope(c, FunBindings(fun)))
    IN  IF r.ok THEN Ok(fun_type(fun)) ELSE r

\* the loop of lines 173-175, from the i-th function on
ChecksFuns(funs, i, c) ==
    IF i > Len(funs) THEN Ok(Int)
    ELSE LET r == ChecksFun(funs[i], c)
         IN  IF r.ok THEN ChecksFuns(funs, i + 1, c) ELSE r

Checks(e, c) ==
    CASE e.tag = "Var" ->
           LET found == lookup(c, e.ident)
           IN  IF found.some THEN Ok(found.type) ELSE Unbound(e.ident)
      [] e.tag = "Literal" -> IF e.lit = "Number" THEN Ok(Int) ELSE Ok(Bool)
      [] e.tag \in {"ArithBinOp", "CmpBinOp"} ->
           LET l == Expects(e.lhs, Int, c)
           IN  IF ~l.ok THEN l
               ELSE LET r == Expects(e.rhs, Int, c)
                    IN  IF ~r.ok THEN r
                        ELSE IF e.tag = "ArithBinOp" THEN Ok(Int) ELSE Ok(Bool)
      [] e.tag = "If" ->
           LET cnd == Expects(e.cond, Bool, c)
           IN  IF ~cnd.ok THEN cnd
               ELSE LET t1 == Checks(e.tru, c)
                    IN  IF ~t1.ok THEN t1
                        ELSE LET t2 == Checks(e.fls, c)
                             IN  IF ~t2.ok THEN t2
                                 ELSE IF t1.type # t2.type
                                      THEN ArmMismatch(t1.type, t2.type)
                                      ELSE Ok(t1.type)
      [] e.tag = "Fun" -> ChecksFun(e, c)
      [] e.tag = "LetFun" ->
           LET ft == ChecksFun(e.fun, c)
           IN  IF ~ft.ok THEN ft
               ELSE Checks(e.body, PushScope(c, <<<<e.fun.fun_name, ft.type>>>>))
      [] e.tag = "LetRec" ->
           LET bindings == collect_bindings(e.funs)
           IN  IF ~bindings.ok THEN bindings
               ELSE LET inner == PushScope(c, bindings.bindings)
                        fs == ChecksFuns(e.funs, 1, inner)
                    IN  IF ~fs.ok THEN fs ELSE Checks(e.body, inner)
      [] e.tag = "Apply" ->
           LET ft == Checks(e.fun, c)
           IN  IF ~ft.ok THEN ft
               ELSE IF ft.type.tag = "Arrow"
                    THEN LET a == Expects(e.arg, ft.type.arg, c)
                         IN  IF ~a.ok THEN a ELSE Ok(ft.type.ret)
                    ELSE NotAFunction(e.fun)

(***************************************************************************)
(* fmt::Debug of the two Type enums, applied to a type: format!("{:?}", t) *)
(* on the ast::Type and on the typecheck::Type that as_type makes of it.   *)
(***************************************************************************)
NoText == [ast |-> "", type |-> ""]

FmtAstType ==
    /\ text.ast = ""
    /\ text' = [text EXCEPT !.ast = AstRender(ty)]
    /\ UNCHANGED <<checker, ty>>

FmtType ==
    /\ text.type = ""
    /\ text' = [text EXCEPT !.type = Render(as_type(ty))]
    /\ UNCHANGED <<checker, ty>>

(***************************************************************************)
(* The inputs.  Every construct is checked over every choice of small      *)
(* operands, at top level and under the binders that give its variables a  *)
(* type.                                                                   *)
(***************************************************************************)
Idents == {"f", "g", "x"}
SigTypes == {AstInt, AstBool, AstArrow(AstInt, AstInt)}

Atoms == {Var(i) : i \in Idents} \cup {Number(92), BoolLit(TRUE)}

\* fun f (x: int): int is x       : int -> int
Inc == Fun("f", "x", AstInt, AstInt, Var("x"))
\* fun g (x: int): bool is true   : int -> bool
IsPos == Fun("g", "x", AstInt, AstBool, BoolLit(TRUE))
\* fun g (f: int -> int): int is f 92 : (int -> int) -> int
Twice == Fun("g", "f", AstArrow(AstInt, AstInt), AstInt, Apply(Var("f"), Number(92)))
\* fun f (x: int): int is true    : fails
Bad == Fun("f", "x", AstInt, AstInt, BoolLit(TRUE))

Operands ==
    Atoms \cup {Inc, IsPos, Twice, Bad,
                CmpBinOp("Lt", Number(1), Number(2)), ArithBinOp("Add", Number(1), Number(1))}

BinOps ==
    {ArithBinOp(k, l, r) : k \in ArithOp, l \in Operands, r \in Operands}
    \cup {CmpBinOp(k, l, r) : k \in CmpOp, l \in Operands, r \in Operands}
Ifs == {If(c, t, e) : c \in Operands, t \in Operands, e \in Operands}
Applies == {Apply(a, b) : a \in Operands, b \in Operands}
Funs == {Fun(n, a, at, rt, b) : n \in Idents, a \in Idents, at \in SigTypes, rt \in SigTypes,
                                b \in Atoms}

\* bodies that use the variables a binder brings into scope
Bodies ==
    Atoms
    \cup {Apply(a, b) : a \in Atoms, b \in Atoms}
    \cup {ArithBinOp("Add", a, b) : a \in Atoms, b \in Atoms}
    \cup {CmpBinOp("Eq", a, b) : a \in Atoms, b \in Atoms}
    \cup {If(BoolLit(TRUE), a, b) : a \in Atoms, b \in Atoms}
    \cup {If(a, Number(1), Number(2)) : a \in Atoms}

Binders ==
    {Fun(n, a, at, rt, b) : n \in {"f"}, a \in {"f", "x"}, at \in SigTypes, rt \in SigTypes,
                            b \in Bodies}
    \cup {LetFun(fn, b) : fn \in {Inc, IsPos, Twice, Bad}, b \in Bodies}

\* the functions of a letrec group: each may call itself and its sibling
GroupFuns ==
    {Fun(n, a, at, AstInt, b) :
        n \in Idents, a \in {"x", "g"}, at \in {AstInt},
        b \in {Var("x"), Apply(Var("g"), Var("x")), Apply(Var("f"), Var("x")), BoolLit(TRUE)}}

RECURSIVE Groups(_)
Groups(n) ==
    IF n = 0 THEN {<<>>}
    ELSE LET shorter == Groups(n - 1)
         IN  shorter \cup {<<fn>> \o g : fn \in GroupFuns, g \in {h \in shorter : Len(h) = n - 1}}

\* a group with a duplicate name whose bodies all check
Dup == LetRec(<<Inc, Inc>>, Number(1))

LetRecs ==
    {LetRec(g, b) : g \in Groups(MaxFuns),
                    b \in {Apply(Var("f"), Apply(Var("g"), Number(1))), Var("x"), Dup}}

\* binders next to and inside other binders
Scoped == {Inc, Bad, LetFun(Inc, Var("f")), LetFun(Bad, Var("f")), LetFun(IsPos, Number(1)),
           LetRec(<<Inc>>, Var("f")), LetRec(<<Bad>>, Var("f")), Dup,
           LetRec(<<Inc, IsPos>>, Var("x"))}

Nested ==
    {Apply(p, a) : p \in Scoped, a \in Atoms}
    \cup {If(BoolLit(TRUE), p, a) : p \in Scoped, a \in Atoms}
    \cup {LetFun(fn, LetFun(gn, b)) : fn \in {Inc, IsPos}, gn \in {Inc, IsPos, Twice},
                                      b \in Atoms \cup {Apply(Var("f"), Number(1))}}
    \cup {LetFun(fn, Apply(p, a)) : fn \in {IsPos, Twice}, p \in Scoped, a \in Atoms}
    \cup {Fun("g", "x", AstInt, AstInt, LetRec(<<fn>>, b)) :
              fn \in GroupFuns, b \in {Var("x"), Apply(Var("f"), Var("x")), Dup}}
    \cup {LetRec(<<Inc, Fun("g", "x", AstInt, AstInt, b)>>, Var("g")) :
              b \in {Dup, LetFun(Inc, Var("y")), LetFun(IsPos, Apply(Var("f"), Var("x")))}}

Exprs == Atoms \cup BinOps \cup Ifs \cup Applies \cup Funs \cup Binders \cup LetRecs \cup Nested

(***************************************************************************)
(* typecheck: a fresh context, then expr.check (lines 59-62).              *)
(***************************************************************************)
Init ==
    /\ expr \in Exprs
    /\ pc = "call_check"
    /\ control = expr
    /\ ctx = empty
    /\ kont = <<>>
    /\ result = NoResult
    /\ ty = AstInt
    /\ text = NoText

Next ==
    \/ CheckVar
    \/ CheckLiteral
    \/ ExpectReturn
    \/ CheckArithBinOp
    \/ ArithLhsReturn
    \/ ArithRhsReturn
    \/ CheckCmpBinOp
    \/ CmpLhsReturn
    \/ CmpRhsReturn
    \/ CheckIf
    \/ IfCondReturn
    \/ IfTruReturn
    \/ IfFlsReturn
    \/ WithBindingsReturn
    \/ CheckFun
    \/ FunReturn
    \/ CheckLetFun
    \/ LetFunFunReturn
    \/ LetFunReturn
    \/ CheckLetRec
    \/ LetRecFunsReturn
    \/ LetRecReturn
    \/ CheckApply
    \/ ApplyFunReturn
    \/ ApplyArgReturn
    \/ TypecheckReturn

Spec == Init /\ [][Next]_vars

(***************************************************************************)
(* The formatter on its own, over every type of up to MaxArrows arrows.    *)
(***************************************************************************)
InitFmt ==
    /\ ty \in AstTypesUpTo(MaxArrows)
    /\ text = NoText
    /\ expr = Number(92)
    /\ pc = "done"
    /\ control = expr
    /\ ctx = empty
    /\ kont = <<>>
    /\ result = NoResult

NextFmt ==
    \/ FmtAstType
    \/ FmtType

SpecFmt == InitFmt /\ [][NextFmt]_vars


(***************************************************************************)
(* Properties.                                                             *)
(***************************************************************************)
Returned(tag) == pc = "ret_check" /\ control.tag = tag

\* the scope a pending with_bindings call of node `self` has pushed
ScopeOf(self) ==
    CASE self.tag = "Fun" -> FunBindings(self)
      [] self.tag = "LetFun" -> <<<<self.fun.fun_name, fun_type(self.fun)>>>>
      [] self.tag = "LetRec" ->
           [i \in 1..Len(self.funs) |-> <<self.funs[i].fun_name, fun_type(self.funs[i])>>]

\* the scopes of the with_bindings calls pending in the frames k, outermost first
RECURSIVE PendingScopes(_)
PendingScopes(k) ==
    IF k = <<>> THEN <<>>
    ELSE PendingScopes(Tail(k))
         \o (IF Head(k).k = "with_bindings" THEN <<ScopeOf(Head(k).self)>> ELSE <<>>)

\* expect has just called the check of the body of the Fun kont[3].self
FunBodyEntry ==
    /\ pc = "call_check"
    /\ Len(kont) >= 3
    /\ kont[1].k = "expect" /\ kont[2].k = "with_bindings" /\ kont[3].k = "Fun"
    /\ control = kont[3].self.body

\* the closure of with_bindings has just called the check of the body of a `tag` node
BodyEntry(tag) ==
    /\ pc = "call_check"
    /\ kont # <<>>
    /\ Top.k = "with_bindings" /\ Top.self.tag = tag
    /\ control = Top.self.body

(***************************************************************************)
(* C1.  The scope stack holds exactly the scopes of the with_bindings      *)
(* calls that are still pending, in the order they were pushed.  A check   *)
(* returns to the frames it was called with, so when the check of a Fun,   *)
(* LetFun or LetRec returns, with a type or with an error, the scope stack *)
(* is what it was at the call: what was bound inside is gone and what was  *)
(* shadowed inside is visible again.  When typecheck returns the context   *)
(* is empty.                                                               *)
(***************************************************************************)
ScopesRestored ==
    /\ ctx = PendingScopes(kont)
    /\ pc = "done" => ctx = empty

\* a Fun has failed inside an enclosing scope, which is still in place
ScopesRestoredWitness ==
    /\ Returned("Fun") /\ ~result.ok
    /\ ctx # empty
    /\ lookup(ctx, control.arg_name) = None

FunOutcome ==
    Returned("Fun") =>
        LET own == Arrow(as_type(control.arg_type), as_type(control.fun_type))
            body == Checks(control.body, PushScope(ctx, ScopeOf(control)))
        IN  /\ result.ok <=> body = Ok(as_type(control.fun_type))
            /\ result.ok => result.type = own
            /\ (body.ok /\ body.type # as_type(control.fun_type)) =>
                   (~result.ok /\ result.kind = "TypeMismatch")

(***************************************************************************)
(* C2, as claimed.  At the entry of the body of Fun(name, arg_name,        *)
(* arg_type, return_type, body), arg_name resolves to arg_type and name to *)
(* arrow(arg_type, return_type); the Fun succeeds exactly when body checks *)
(* to return_type, fails with TypeMismatch when body checks to another     *)
(* type, and returns arrow(arg_type, return_type) on success.              *)
(***************************************************************************)
FunChecksBodyWithArgAndSelf ==
    /\ FunBodyEntry =>
           LET f == kont[3].self
           IN  /\ lookup(ctx, f.arg_name) = Some(as_type(f.arg_type))
               /\ lookup(ctx, f.fun_name) = Some(Arrow(as_type(f.arg_type), as_type(f.fun_type)))
    /\ FunOutcome

(***************************************************************************)
(* C2, amended.  As claimed, except that arg_name resolves to arg_type     *)
(* only when it differs from name: when the two are the same identifier,   *)
(* it resolves to arrow(arg_type, return_type), the binding of name being  *)
(* the later one of the scope.                                             *)
(***************************************************************************)
FunChecksBodyWithSelfOverArg ==
    /\ FunBodyEntry =>
           LET f == kont[3].self
           IN  /\ f.arg_name # f.fun_name => lookup(ctx, f.arg_name) = Some(as_type(f.arg_type))
               /\ lookup(ctx, f.fun_name) = Some(Arrow(as_type(f.arg_type), as_type(f.fun_type)))
    /\ FunOutcome

\* a Fun whose body is its argument has been accepted
FunAcceptedWitness ==
    /\ Returned("Fun") /\ result.ok
    /\ control.arg_name # control.fun_name
    /\ control.body = Var(control.arg_name)

PairwiseDistinct(funs) ==
    \A i, j \in 1..Len(funs) : i # j => funs[i].fun_name # funs[j].fun_name

IsDuplicate(r) == ~r.ok /\ r.kind = "DuplicateDefinition"

\* the nodes of the tree e, e included
RECURSIVE Nodes(_)
Nodes(e) ==
    {e} \cup
    CASE e.tag \in {"Var", "Literal"} -> {}
      [] e.tag \in {"ArithBinOp", "CmpBinOp"} -> Nodes(e.lhs) \cup Nodes(e.rhs)
      [] e.tag = "If" -> Nodes(e.cond) \cup Nodes(e.tru) \cup Nodes(e.fls)
      [] e.tag = "Fun" -> Nodes(e.body)
      [] e.tag = "LetFun" -> Nodes(e.fun) \cup Nodes(e.body)
      [] e.tag = "LetRec" -> UNION {Nodes(e.funs[i]) : i \in 1..Len(e.funs)} \cup Nodes(e.body)
      [] e.tag = "Apply" -> Nodes(e.fun) \cup Nodes(e.arg)

\* a LetRec with a repeated name answers DuplicateDefinition in one step:
\* nothing is called and the context is not touched
DuplicateDecidedFirst ==
    [][(pc = "call_check" /\ control.tag = "LetRec" /\ ~PairwiseDistinct(control.funs))
         => /\ pc' = "ret_check"
            /\ result' = Duplicate(control.funs)
            /\ UNCHANGED <<control, ctx, kont>>]_vars

(***************************************************************************)
(* C3, as claimed.  A LetRec whose names are not pairwise distinct fails   *)
(* with DuplicateDefinition, before any body is checked and without a      *)
(* scope being pushed; a LetRec whose names are pairwise distinct never    *)
(* fails with DuplicateDefinition.                                         *)
(***************************************************************************)
DuplicateIffNamesRepeat ==
    /\ [](Returned("LetRec") =>
             /\ ~PairwiseDistinct(control.funs) => result = Duplicate(control.funs)
             /\ PairwiseDistinct(control.funs) => ~IsDuplicate(result))
    /\ DuplicateDecidedFirst

(***************************************************************************)
(* C3, amended.  As claimed, except that a LetRec whose names are pairwise *)
(* distinct can fail with DuplicateDefinition, never for its own group but *)
(* for the group of a LetRec nested inside it whose names are not pairwise *)
(* distinct.                                                               *)
(***************************************************************************)
DuplicateOnlyFromRepeatedNames ==
    /\ [](Returned("LetRec") =>
             /\ ~PairwiseDistinct(control.funs) => result = Duplicate(control.funs)
             /\ (PairwiseDistinct(control.funs) /\ IsDuplicate(result)) =>
                    \E n \in Nodes(control) \ {control} :
                        /\ n.tag = "LetRec"
                        /\ ~PairwiseDistinct(n.funs)
                        /\ result = Duplicate(n.funs))
    /\ DuplicateDecidedFirst

\* a group with a repeated name and a body of the wrong type has been rejected
\* as a duplicate, inside an enclosing scope
DuplicateWitness ==
    /\ Returned("LetRec")
    /\ result = Duplicate(control.funs)
    /\ \E i \in 1..Len(control.funs) : control.funs[i].body = BoolLit(TRUE)
    /\ ctx = empty /\ kont = <<>>

Declared(f) == Some(Arrow(as_type(f.arg_type), as_type(f.fun_type)))

\* the body of the i-th function of a group is being entered
GroupFunBodyEntry ==
    /\ FunBodyEntry
    /\ Len(kont) >= 4
    /\ kont[4].k = "LetRecFuns"

LetRecOutcome ==
    /\ GroupFunBodyEntry => kont[1].type_ = as_type(kont[3].self.fun_type)
    /\ BodyEntry("LetRec") =>
           \A j \in 1..Len(Top.self.funs) :
               lookup(ctx, Top.self.funs[j].fun_name) = Declared(Top.self.funs[j])
    /\ (Returned("LetRec") /\ PairwiseDistinct(control.funs)) =>
           LET inner == PushScope(ctx, ScopeOf(control))
           IN  IF \A j \in 1..Len(control.funs) : ChecksFun(control.funs[j], inner).ok
               THEN result = Checks(control.body, inner)
               ELSE ~result.ok

(***************************************************************************)
(* C4, as claimed.  In a LetRec with pairwise distinct names, at the entry *)
(* of the body of every function of the group and at the entry of the      *)
(* letrec body, the name of every function of the group resolves to        *)
(* arrow(arg_type, return_type) of that function; each function body is    *)
(* checked against its own declared return type; and the LetRec returns    *)
(* the type of body.                                                       *)
(***************************************************************************)
GroupVisibleEverywhere ==
    /\ GroupFunBodyEntry =>
           LET funs == kont[4].self.funs
           IN  \A j \in 1..Len(funs) : lookup(ctx, funs[j].fun_name) = Declared(funs[j])
    /\ LetRecOutcome

(***************************************************************************)
(* C4, amended.  As claimed, except inside the body of a function whose    *)
(* arg_name is the name of a sibling: there that name resolves to the      *)
(* function's arg_type, and every other name of the group, the function's  *)
(* own included, resolves to its declared type.                            *)
(***************************************************************************)
GroupVisibleUnlessArgShadows ==
    /\ GroupFunBodyEntry =>
           LET funs == kont[4].self.funs
               i == kont[4].i
           IN  \A j \in 1..Len(funs) :
                   IF j # i /\ funs[j].fun_name = funs[i].arg_name
                   THEN lookup(ctx, funs[j].fun_name) = Some(as_type(funs[i].arg_type))
                   ELSE lookup(ctx, funs[j].fun_name) = Declared(funs[j])
    /\ LetRecOutcome

\* two functions that call each other, and a body that calls both, have checked
MutualRecursionWitness ==
    /\ Returned("LetRec") /\ result = Ok(Int)
    /\ Len(control.funs) = 2
    /\ control.funs[1].body = Apply(Var(control.funs[2].fun_name), Var(control.funs[1].arg_name))
    /\ control.funs[2].body = Apply(Var(control.funs[1].fun_name), Var(control.funs[2].arg_name))
    /\ control.body = Apply(Var("f"), Apply(Var("g"), Number(1)))

IsMismatch(r) == ~r.ok /\ r.kind = "TypeMismatch"

ApplyOutcome ==
    Returned("Apply") =>
        LET f == Checks(control.fun, ctx)
            a == Checks(control.arg, ctx)
        IN  /\ (f.ok /\ f.type.tag # "Arrow") => result = NotAFunction(control.fun)
            /\ (f.ok /\ f.type.tag = "Arrow") =>
                   /\ result.ok <=> (a.ok /\ a.type = f.type.arg)
                   /\ result.ok => result.type = f.type.ret
                   /\ (a.ok /\ a.type # f.type.arg) => IsMismatch(result)

(***************************************************************************)
(* C5.  When the check of Apply(fun, arg) returns: if fun checks to a type *)
(* that is not an Arrow the result is NotAFunction, and it is returned in  *)
(* the step that sees the type of fun, with no call of the check of arg;   *)
(* if fun checks to Arrow(a, r), the Apply succeeds exactly when arg       *)
(* checks to a, its type is then r, and it fails with TypeMismatch when    *)
(* arg checks to another type.                                             *)
(***************************************************************************)
ApplyRule ==
    /\ []ApplyOutcome
    /\ [][(Returning("ret_check", "ApplyFun") /\ result.ok /\ result.type.tag # "Arrow")
            => /\ pc' = "ret_check"
               /\ control' = Top.self
               /\ result' = NotAFunction(Top.self.fun)
               /\ kont' = Tail(kont)]_vars

\* a function int -> int applied to a value of type int -> int has been rejected
ApplyToFunctionWitness ==
    /\ Returned("Apply")
    /\ IsMismatch(result)
    /\ result.expected = "int" /\ result.got = "int -> int"
    /\ Checks(control.fun, ctx) = Ok(Arrow(Int, Int))

BinOpSuccess ==
    (Returned("ArithBinOp") \/ Returned("CmpBinOp")) =>
        LET l == Checks(control.lhs, ctx)
            r == Checks(control.rhs, ctx)
            group == IF control.tag = "ArithBinOp" THEN ArithOp ELSE CmpOp
        IN  /\ result.ok <=> (l = Ok(Int) /\ r = Ok(Int))
            /\ result.ok => result.type = IF control.tag = "ArithBinOp" THEN Int ELSE Bool
            /\ control.kind \in group
            /\ \A k \in group : result = Checks([control EXCEPT !.kind = k], ctx)

(***************************************************************************)
(* C6, as claimed.  When the check of a binary operator node returns: it   *)
(* has succeeded exactly when both operands check to Int; its type is then *)
(* Int for an ArithBinOp and Bool for a CmpBinOp; it has failed with       *)
(* TypeMismatch when an operand checks to a type other than Int; and the   *)
(* result is the same whichever operator of the group the node carries.    *)
(***************************************************************************)
BinOpMismatchOnEitherOperand ==
    /\ BinOpSuccess
    /\ (Returned("ArithBinOp") \/ Returned("CmpBinOp")) =>
           LET l == Checks(control.lhs, ctx)
               r == Checks(control.rhs, ctx)
           IN  ((l.ok /\ l.type # Int) \/ (r.ok /\ r.type # Int)) => IsMismatch(result)

(***************************************************************************)
(* C6, amended.  As claimed, except that a right operand that checks to a  *)
(* type other than Int makes the node fail with TypeMismatch only when the *)
(* left operand checks to a type: when the check of the left operand       *)
(* fails, the node fails with that error and the right operand is not      *)
(* checked.                                                                *)
(***************************************************************************)
BinOpMismatchInOrder ==
    /\ BinOpSuccess
    /\ (Returned("ArithBinOp") \/ Returned("CmpBinOp")) =>
           LET l == Checks(control.lhs, ctx)
               r == Checks(control.rhs, ctx)
           IN  /\ (l.ok /\ l.type # Int) => IsMismatch(result)
               /\ (l.ok /\ r.ok /\ r.type # Int) => IsMismatch(result)
               /\ ~l.ok => result = l

\* true == true has been rejected
EqOnBoolsWitness ==
    /\ Returned("CmpBinOp")
    /\ control = CmpBinOp("Eq", BoolLit(TRUE), BoolLit(TRUE))
    /\ IsMismatch(result)
    /\ result.expected = "int" /\ result.got = "bool"

(***************************************************************************)
(* C7.  When the check of If(cond, t, f) returns: it has succeeded exactly *)
(* when cond checks to Bool and t and f check to equal types; its type is  *)
(* then that type; it has failed with TypeMismatch when cond checks to a   *)
(* type other than Bool, and with ArmMismatch when cond checks to Bool and *)
(* t and f check to different types.                                       *)
(***************************************************************************)
IfOutcome ==
    Returned("If") =>
        LET c == Checks(control.cond, ctx)
            t == Checks(control.tru, ctx)
            f == Checks(control.fls, ctx)
        IN  /\ result.ok <=> (c = Ok(Bool) /\ t.ok /\ f.ok /\ t.type = f.type)
            /\ result.ok => (result.type = t.type /\ result.type = f.type)
            /\ (c.ok /\ c.type # Bool) => IsMismatch(result)
            /\ (c = Ok(Bool) /\ t.ok /\ f.ok /\ t.type # f.type) =>
                   (~result.ok /\ result.kind = "ArmMismatch")

\* arms of two different function types have been rejected
ArmsDifferWitness ==
    /\ Returned("If")
    /\ ~result.ok /\ result.kind = "ArmMismatch"
    /\ result.tru = "int -> int" /\ result.fls = "int -> bool"

ErrorKinds ==
    {"UnboundVariable", "TypeMismatch", "ArmMismatch", "NotAFunction", "DuplicateDefinition"}

(***************************************************************************)
(* C8.  Checking is fail-fast.  What a check returns is what the recursion *)
(* in the checker's order (lhs, rhs; cond, then, else; fun, arg; the Fun   *)
(* of a LetFun, its body; the functions of a LetRec in sequence, its body) *)
(* yields when it stops at its first failure; once an error is being       *)
(* returned it is returned unchanged and no check is called any more; and  *)
(* typecheck ends with one outcome, a type or one of the five errors.      *)
(***************************************************************************)
FailFast ==
    /\ [](pc = "ret_check" => result = Checks(control, ctx))
    /\ [](pc = "done" => /\ result = Checks(expr, empty)
                         /\ result.ok \/ result.kind \in ErrorKinds)
    /\ [][(pc # "call_check" /\ ~result.ok) => (pc' # "call_check" /\ result' = result)]_vars

\* the condition of an If has failed, its then-arm would have failed otherwise,
\* and the If returns the failure of the condition
FirstFailureWitness ==
    /\ Returned("If")
    /\ LET c == Expects(control.cond, Bool, ctx)
           t == Checks(control.tru, ctx)
       IN  ~c.ok /\ ~t.ok /\ c.kind # t.kind /\ result = c

Range(seq) == {seq[i] : i \in 1..Len(seq)}

(***************************************************************************)
(* C9.  In LetFun(fun, body) the check of fun is called with no scope      *)
(* added by the LetFun, and the body of fun is entered with one scope more *)
(* than the enclosing ones, holding the argument and the self-reference of *)
(* fun; body is entered with the name of fun resolving to                  *)
(* arrow(arg_type, return_type), whatever an outer scope binds it to; the  *)
(* LetFun returns what body checks to there, or the failure of fun.  When  *)
(* the check of a Fun returns, its name resolves as in the enclosing       *)
(* scopes: the Fun has bound nothing for the expression around it.         *)
(***************************************************************************)
LetFunRule ==
    /\ (pc = "call_check" /\ kont # <<>> /\ Top.k = "LetFunFun") =>
           ctx = PendingScopes(Tail(kont))
    /\ (FunBodyEntry /\ Len(kont) >= 4 /\ kont[4].k = "LetFunFun") =>
           LET f == kont[3].self
           IN  /\ PopScope(ctx) = PendingScopes(SubSeq(kont, 5, Len(kont)))
               /\ Range(ctx[Len(ctx)]) = {<<f.arg_name, as_type(f.arg_type)>>,
                                          <<f.fun_name, Arrow(as_type(f.arg_type), as_type(f.fun_type))>>}
    /\ BodyEntry("LetFun") =>
           lookup(ctx, Top.self.fun.fun_name) = Declared(Top.self.fun)
    /\ Returned("LetFun") =>
           LET ft == Checks(control.fun, ctx)
               own == Arrow(as_type(control.fun.arg_type), as_type(control.fun.fun_type))
           IN  IF ft.ok
               THEN result = Checks(control.body, PushScope(ctx, <<<<control.fun.fun_name, own>>>>))
               ELSE result = ft
    /\ Returned("Fun") =>
           lookup(ctx, control.fun_name) = lookup(PendingScopes(kont), control.fun_name)

\* the body of a LetFun is entered with the name rebound to another type
LetFunShadowsWitness ==
    /\ BodyEntry("LetFun")
    /\ LET outer == lookup(PopScope(ctx), Top.self.fun.fun_name)
       IN  outer.some /\ outer # Declared(Top.self.fun)

Wrapped(str) == "(" \o str \o ")"

(***************************************************************************)
(* C10.  What the formatter writes for a type: int for Int, bool for Bool, *)
(* and for Arrow(a, r) the text of a, in parentheses exactly when a is an  *)
(* Arrow, then " -> ", then the text of r without parentheses; no other    *)
(* type of the bounded universe has the same text.  Both Debug impls, the  *)
(* one of ast::Type and the one of typecheck::Type, write this text.       *)
(***************************************************************************)
CanonicalRendering ==
    /\ text.ast # "" =>
           /\ ty = AstInt => text.ast = "int"
           /\ ty = AstBool => text.ast = "bool"
           /\ ty.ast = "Arrow" =>
                  text.ast = (IF ty.l.ast = "Arrow" THEN Wrapped(AstRender(ty.l))
                                                    ELSE AstRender(ty.l))
                             \o " -> " \o AstRender(ty.r)
           /\ ty = AstArrow(AstInt, AstArrow(AstBool, AstInt)) => text.ast = "int -> bool -> int"
           /\ ty = AstArrow(AstArrow(AstInt, AstBool), AstInt) => text.ast = "(int -> bool) -> int"
           /\ \A u \in AstTypesUpTo(MaxArrows) : AstRender(u) = text.ast => u = ty
    /\ text.type # "" =>
           LET t == as_type(ty)
           IN  /\ t = Int => text.type = "int"
               /\ t = Bool => text.type = "bool"
               /\ t.tag = "Arrow" =>
                      text.type = (IF t.arg.tag = "Arrow" THEN Wrapped(Render(t.arg))
                                                          ELSE Render(t.arg))
                                  \o " -> " \o Render(t.ret)
               /\ t = Arrow(Int, Arrow(Bool, Int)) => text.type = "int -> bool -> int"
               /\ t = Arrow(Arrow(Int, Bool), Int) => text.type = "(int -> bool) -> int"
               /\ \A u \in AstTypesUpTo(MaxArrows) :
                      Render(as_type(u)) = text.type => as_type(u) = t

\* a type with an arrow on the left of an arrow has been written by both impls
RenderingWitness ==
    /\ ty = AstArrow(AstArrow(AstInt, AstBool), AstArrow(AstBool, AstInt))
    /\ text.ast = "(int -> bool) -> bool -> int"
    /\ text.type = text.ast
====
